---------------------------- MODULE Spec2Model ----------------------------
(***************************************************************************)
(* A model of simple_env_load (src/src/lib.rs): the .env line parser       *)
(* (parse, parse_str), the callback driver parse_and_set and the loader    *)
(* load_env_from.                                                          *)
(*                                                                         *)
(* Text is a sequence of one-character strings.  All modelled characters   *)
(* are ASCII, so a byte offset of char_indices() is the 0-based position   *)
(* of the character.  An Option is a sequence of length at most one.       *)
(***************************************************************************)
EXTENDS Integers, Sequences, FiniteSets, TLC

VARIABLES
    input,      \* parse_str: the argument
    i,          \* parse_str: the index the for loop is at (0-based)
    flavor,     \* parse_str: "Unknown" | "Single" | "Double"
    start,      \* parse_str: Option<usize>
    end,        \* parse_str: Option<usize>
    result,     \* parse_str: the returned Option<&str>, once returned
    fault,      \* "none", or the panic that ended the call
    data,       \* parse: the text being parsed
    lines,      \* parse: the lines the iterator has not yet yielded
    entries,    \* the Vec the closure pushes (k, v) to
    paths,      \* load_env_from: what read_to_string returns for each path given
    remaining,  \* load_env_from: number of paths not yet visited
    env,        \* the process environment: a set of <<key, value>>
    pc

vars == <<input, i, flavor, start, end, result, fault, data, lines, entries,
          paths, remaining, env, pc>>

strVars == <<input, i, flavor, start, end, result>>
loadVars == <<data, lines, entries, paths, remaining, env>>

---------------------------------------------------------------------------
(* Bounds *)

MaxStrLen == 5

MaxLen == 6

MaxPaths == 3

---------------------------------------------------------------------------
(* Options and text primitives *)

None == <<>>

Some(x) == <<x>>

RECURSIVE StringsUpTo(_, _)
StringsUpTo(alphabet, n) ==
    IF n = 0 THEN {<<>>}
    ELSE LET shorter == StringsUpTo(alphabet, n - 1)
         IN shorter \cup {Append(s, c) : s \in {t \in shorter : Len(t) = n - 1},
                                         c \in alphabet}

IsWhitespace(c) == c \in {" ", "\t", "\n", "\r"}

IsQuote(c) == c \in {"\"", "'"}

RECURSIVE trim_start(_)
trim_start(s) ==
    IF s # <<>> /\ IsWhitespace(Head(s)) THEN trim_start(Tail(s)) ELSE s

RECURSIVE trim_end(_)
trim_end(s) ==
    IF s # <<>> /\ IsWhitespace(s[Len(s)])
    THEN trim_end(SubSeq(s, 1, Len(s) - 1))
    ELSE s

trim(s) == trim_end(trim_start(s))

\* str::find(char): the 0-based offset of the first occurrence.
find(s, c) ==
    IF \E k \in 1..Len(s) : s[k] = c
    THEN Some((CHOOSE k \in 1..Len(s) :
                  s[k] = c /\ \A m \in 1..(k - 1) : s[m] # c) - 1)
    ELSE None

\* Mutant of splitn2: splits at the last occurrence, as rsplitn(2, c) would.
splitn2_at_last(s, c) ==
    IF \A k \in 1..Len(s) : s[k] # c THEN <<s>>
    ELSE LET p == CHOOSE k \in 1..Len(s) :
                      s[k] = c /\ \A m \in (k + 1)..Len(s) : s[m] # c
         IN <<SubSeq(s, 1, p - 1), SubSeq(s, p + 1, Len(s))>>

\* s.splitn(2, c): one part when c does not occur, else the text before the
\* first c and everything after it.
splitn2(s, c) ==
    LET p == find(s, c)
    IN IF p = None THEN <<s>>
       ELSE <<SubSeq(s, 1, p[1]), SubSeq(s, p[1] + 2, Len(s))>>

\* str::get(a..b): None when the range is decreasing or runs past the end.
get(s, a, b) ==
    IF a <= b /\ b <= Len(s) THEN Some(SubSeq(s, a + 1, b)) ELSE None

\* One line of str::lines() loses the "\r" of a "\r\n" ending.
strip_cr(s) ==
    IF s # <<>> /\ s[Len(s)] = "\r" THEN SubSeq(s, 1, Len(s) - 1) ELSE s

\* str::lines(): split at "\n"; the final line ending is optional.
RECURSIVE str_lines(_)
str_lines(s) ==
    IF s = <<>> THEN <<>>
    ELSE LET p == find(s, "\n")
         IN IF p = None THEN <<s>>
            ELSE <<strip_cr(SubSeq(s, 1, p[1]))>>
                     \o str_lines(SubSeq(s, p[1] + 2, Len(s)))

---------------------------------------------------------------------------
(* parse_str *)

\* input.contains(|c| matches!(c, '"' | '\''))
contains_quote(s) == \E k \in 1..Len(s) : IsQuote(s[k])

\* Mutant of no_quote_return: the trim is forgotten.
no_quote_return_untrimmed(s) == Some(splitn2(s, "#")[1])

\* The early return of parse_str: splitn(2, '#').map(trim).next()
no_quote_return(s) == Some(trim(splitn2(s, "#")[1]))

\* Mutant of flavor_of: the `_ => continue` arm leaves the flavor Unknown.
flavor_of_no_continue(c) ==
    CASE c = "'" -> "Single"
      [] c = "\"" -> "Double"
      [] OTHER -> "Unknown"

\* flavor = match c { '\'' => Single, '"' => Double, _ => continue }
flavor_of(c) ==
    CASE c = "'" -> "Single"
      [] c = "\"" -> "Double"
      [] OTHER -> "continue"

delimiter(f) == IF f = "Single" THEN "'" ELSE "\""

\* Mutant of start_at: start is the index of the opening quote itself.
start_at_quote(idx) == idx

\* start.get_or_insert(i + 1)
start_at(idx) == idx + 1

\* end.get_or_insert(i - 1): usize subtraction, which faults below zero.
end_at(idx) == idx - 1

\* The body of `for (i, c) in input.char_indices()` after the break test,
\* on the loop state st = [flavor, start, end, fault].
loop_body(st, idx, c) ==
    LET f == IF st.flavor = "Unknown" THEN flavor_of(c) ELSE st.flavor
    IN IF f = "continue" THEN st
       ELSE IF f = "Unknown" THEN [st EXCEPT !.fault = "unreachable"]
       ELSE IF delimiter(f) # c THEN [st EXCEPT !.flavor = f]
       ELSE IF st.start = None
            THEN [st EXCEPT !.flavor = f, !.start = Some(start_at(idx))]
       ELSE IF st.end = None
            THEN IF end_at(idx) < 0
                 THEN [st EXCEPT !.flavor = f, !.fault = "underflow"]
                 ELSE [st EXCEPT !.flavor = f, !.end = Some(end_at(idx))]
       ELSE [st EXCEPT !.flavor = f]

\* Mutant of finish: the slice runs to the end of the input.
finish_to_end(s, st, en) ==
    IF st = None \/ en = None THEN None
    ELSE get(s, st[1], Len(s))

\* let (start, end) = (start?, end?); input.get(start..start + end)
finish(s, st, en) ==
    IF st = None \/ en = None THEN None
    ELSE get(s, st[1], st[1] + en[1])

InitScan == [flavor |-> "Unknown", start |-> None, end |-> None, fault |-> "none"]

RECURSIVE scan(_, _, _)
scan(s, idx, st) ==
    IF idx >= Len(s) \/ st.fault # "none" \/ (st.start # None /\ st.end # None)
    THEN st
    ELSE scan(s, idx + 1, loop_body(st, idx, s[idx + 1]))

\* parse_str as a function of its argument (a call that panics returns
\* nothing; the step machine below records the panic itself).
parse_str(s) ==
    IF ~contains_quote(s) THEN no_quote_return(s)
    ELSE LET st == scan(s, 0, InitScan)
         IN IF st.fault # "none" THEN None ELSE finish(s, st.start, st.end)

---------------------------------------------------------------------------
(* parse_str, statement by statement *)

StrChars == {"a", " ", "#", "'", "\""}

StrInputs == StringsUpTo(StrChars, MaxStrLen)

IdleLoad ==
    /\ data = <<>> /\ lines = <<>> /\ entries = <<>>
    /\ paths = <<>> /\ remaining = 0 /\ env = {}

InitStr ==
    /\ input \in StrInputs
    /\ i = 0 /\ flavor = "Unknown" /\ start = None /\ end = None
    /\ result = None /\ fault = "none"
    /\ IdleLoad
    /\ pc = "entry"

NoQuoteReturn ==
    /\ pc = "entry" /\ ~contains_quote(input)
    /\ result' = no_quote_return(input)
    /\ pc' = "done"
    /\ UNCHANGED <<input, i, flavor, start, end, fault, loadVars>>

EnterLoop ==
    /\ pc = "entry" /\ contains_quote(input)
    /\ pc' = "loop"
    /\ UNCHANGED <<input, i, flavor, start, end, result, fault, loadVars>>

LoopBreak ==
    /\ pc = "loop" /\ i < Len(input)
    /\ start # None /\ end # None
    /\ pc' = "after"
    /\ UNCHANGED <<input, i, flavor, start, end, result, fault, loadVars>>

LoopBody ==
    /\ pc = "loop" /\ i < Len(input)
    /\ ~(start # None /\ end # None)
    /\ LET st == loop_body([flavor |-> flavor, start |-> start, end |-> end,
                            fault |-> fault], i, input[i + 1])
       IN /\ flavor' = st.flavor
          /\ start' = st.start
          /\ end' = st.end
          /\ fault' = st.fault
          /\ pc' = IF st.fault # "none" THEN "panic" ELSE "loop"
    /\ i' = i + 1
    /\ UNCHANGED <<input, result, loadVars>>

LoopExhausted ==
    /\ pc = "loop" /\ i = Len(input)
    /\ pc' = "after"
    /\ UNCHANGED <<input, i, flavor, start, end, result, fault, loadVars>>

Finish ==
    /\ pc = "after"
    /\ result' = finish(input, start, end)
    /\ pc' = "done"
    /\ UNCHANGED <<input, i, flavor, start, end, fault, loadVars>>

NextStr ==
    \/ NoQuoteReturn
    \/ EnterLoop
    \/ LoopBreak
    \/ LoopBody
    \/ LoopExhausted
    \/ Finish

SpecStr == InitStr /\ [][NextStr]_vars

---------------------------------------------------------------------------
(* parse: the closure of filter_map, applied to one line of data.lines() *)

parse_line(line) ==
    LET s == trim(line)
    IN IF s # <<>> /\ s[1] = "#" THEN None
       ELSE LET parts == splitn2(s, "=")
                head == parse_str(trim(parts[1]))
            IN IF head = None THEN None
               ELSE IF Len(parts) < 2 THEN None
               ELSE LET tail == parse_str(trim(parts[2]))
                    IN IF tail = None THEN None
                       ELSE Some(<<head[1], tail[1]>>)

\* Mutant of push: the entry is inserted at the front.
push_front(vec, e) == <<e>> \o vec

\* entries.push((k.to_string(), v.to_string()))
push(vec, e) == Append(vec, e)

ParseChars == {"a", " ", "=", "#", "'", "\""}

ParseInputs == StringsUpTo(ParseChars, MaxLen)

IdleStr ==
    /\ input = <<>> /\ i = 0 /\ flavor = "Unknown" /\ start = None
    /\ end = None /\ result = None

InitParse ==
    /\ data \in ParseInputs
    /\ lines = str_lines(data)
    /\ entries = <<>>
    /\ paths = <<>> /\ remaining = 0 /\ env = {}
    /\ IdleStr /\ fault = "none"
    /\ pc = "parse"

\* One item of parse(data): the next line goes through the closure, and an
\* entry it yields is handed to the sink.
ParseLine ==
    /\ pc = "parse" /\ lines # <<>>
    /\ LET r == parse_line(Head(lines))
       IN entries' = IF r = None THEN entries ELSE push(entries, r[1])
    /\ lines' = Tail(lines)
    /\ UNCHANGED <<strVars, fault, data, paths, remaining, env, pc>>

ParseDone ==
    /\ pc = "parse" /\ lines = <<>>
    /\ pc' = "done"
    /\ UNCHANGED <<strVars, fault, loadVars>>

NextParse == ParseLine \/ ParseDone

SpecParse == InitParse /\ [][NextParse]_vars

---------------------------------------------------------------------------
(* load_env_from *)

KeyK == <<"K">>

NL == <<"\n">>

\* The contents a readable path may have.
FileTexts ==
    { <<>>,
      <<"K", "=", "1">>,
      <<"K", "=", "2">> \o NL,
      <<"#", "c">> \o NL \o <<"K", "=", "1">> \o NL \o NL \o <<"J", "=", "2">>,
      <<"J", "=", "1">> \o NL \o <<"x">> \o NL \o <<"K", "=", "2">>,
      <<"K", "=", "1">> \o NL \o <<"K", "=", "2">> }

\* std::fs::read_to_string on one path: Err (None) or Ok(text).
ReadResults == {None} \cup {Some(t) : t \in FileTexts}

\* The process environment before the call.
InitialEnvs == { {}, {<<KeyK, <<"0">>>>} }

InitLoad ==
    /\ paths \in StringsUpTo(ReadResults, MaxPaths)
    /\ remaining = Len(paths)
    /\ env \in InitialEnvs
    /\ data = <<>> /\ lines = <<>> /\ entries = <<>>
    /\ IdleStr /\ fault = "none"
    /\ pc = "fold"

\* The result of read_to_string for the path the iterator is at.
current == paths[Len(paths) - remaining + 1]

\* read_to_string returns Err: flatten() drops it.
ReadErr ==
    /\ pc = "fold" /\ remaining > 0
    /\ current = None
    /\ remaining' = remaining - 1
    /\ UNCHANGED <<strVars, fault, data, lines, entries, paths, env, pc>>

\* read_to_string returns Ok(data): the fold closure calls parse_and_set.
ReadOk ==
    /\ pc = "fold" /\ remaining > 0
    /\ current # None
    /\ data' = current[1]
    /\ lines' = str_lines(current[1])
    /\ remaining' = remaining - 1
    /\ pc' = "parse"
    /\ UNCHANGED <<strVars, fault, entries, paths, env>>

\* parse_and_set returns; the closure hands entries back to the fold.
EndOfData ==
    /\ pc = "parse" /\ lines = <<>>
    /\ pc' = "fold"
    /\ UNCHANGED <<strVars, fault, loadVars>>

Return ==
    /\ pc = "fold" /\ remaining = 0
    /\ pc' = "done"
    /\ UNCHANGED <<strVars, fault, loadVars>>

NextLoad ==
    \/ ReadErr
    \/ ReadOk
    \/ ParseLine
    \/ EndOfData
    \/ Return

SpecLoad == InitLoad /\ [][NextLoad]_vars

---------------------------------------------------------------------------
(* Reference notions the properties are stated with.  They are written     *)
(* directly over positions, not with the operators that model the code.    *)

Positions(s, c) == {k \in 1..Len(s) : s[k] = c}

Min(S) == CHOOSE x \in S : \A y \in S : x <= y

Max(S) == CHOOSE x \in S : \A y \in S : y <= x

\* 1-based position of the first c in s; Len(s) + 1 when there is none.
First(s, c) == Min(Positions(s, c) \cup {Len(s) + 1})

\* s without its leading and trailing whitespace.
Strip(s) ==
    LET solid == {k \in 1..Len(s) : s[k] \notin {" ", "\t", "\n", "\r"}}
    IN IF solid = {} THEN <<>> ELSE SubSeq(s, Min(solid), Max(solid))

Has(s, c) == Positions(s, c) # {}

HasQuote(s) == Has(s, "'") \/ Has(s, "\"")

Before(s, c) == SubSeq(s, 1, First(s, c) - 1)

After(s, c) == SubSeq(s, First(s, c) + 1, Len(s))

\* The key part and the value part of a line: around its first '='.
KeyPart(line) == Strip(Before(line, "="))

ValPart(line) == Strip(After(line, "="))

\* s begins with a quote character that occurs again later.
Quoted(s) ==
    /\ s # <<>>
    /\ s[1] \in {"'", "\""}
    /\ \E k \in 2..Len(s) : s[k] = s[1]

\* Position of the quote closing the one s begins with.
Closing(s) == Min({k \in 2..Len(s) : s[k] = s[1]})

\* The text strictly between the opening quote of s and the next one.
Between(s) == SubSeq(s, 2, Closing(s) - 1)

\* The text after the closing quote.
Rest(s) == SubSeq(s, Closing(s) + 1, Len(s))

\* A key part with no quote character that is not empty and does not make
\* the line a comment; it normalizes to a non-empty key.
PlainKey(line) ==
    /\ KeyPart(line) # <<>>
    /\ ~HasQuote(KeyPart(line))
    /\ KeyPart(line)[1] # "#"

IsSuffix(t, s) ==
    Len(t) <= Len(s) /\ SubSeq(s, Len(s) - Len(t) + 1, Len(s)) = t

\* The single line of text the parser was given has been consumed.
ParsedLine == pc = "done" /\ Has(data, "=")

---------------------------------------------------------------------------
(* C1 *)

\* C1: a value part that begins with a quote q and contains a later q is
\* emitted as exactly the text between that q and the next q, every
\* character inside kept; an entry is emitted whenever the key part is a
\* plain non-empty key.  The same holds for a quoted key part, whose entry is
\* emitted whenever the value part is quoted or has no quote at all.
C1_OuterQuotesRemovedOnce ==
    ParsedLine =>
       /\ Quoted(ValPart(data)) =>
             /\ PlainKey(data) => entries # <<>>
             /\ entries # <<>> =>
                   /\ Len(entries) = 1
                   /\ entries[1][2] = Between(ValPart(data))
       /\ Quoted(KeyPart(data)) =>
             /\ (Quoted(ValPart(data)) \/ ~HasQuote(ValPart(data)))
                   => entries # <<>>
             /\ entries # <<>> =>
                   /\ Len(entries) = 1
                   /\ entries[1][1] = Between(KeyPart(data))

\* A quoted value holding a quote of the other flavor and a '#' was emitted.
C1_Witness ==
    /\ ParsedLine /\ PlainKey(data)
    /\ Quoted(ValPart(data))
    /\ HasQuote(Between(ValPart(data)))
    /\ Has(Between(ValPart(data)), "#")
    /\ Len(entries) = 1
    /\ entries[1][2] = Between(ValPart(data))

---------------------------------------------------------------------------
(* C2 *)

\* C2: a line KEY=value with no quote character and no '#', whose KEY is not
\* empty after trimming, yields exactly one entry (trim(KEY), trim(value)),
\* split at the first '='.
C2_PlainLine ==
    (ParsedLine /\ ~HasQuote(data) /\ ~Has(data, "#") /\ KeyPart(data) # <<>>)
       => entries = << <<KeyPart(data), ValPart(data)>> >>

\* A plain line with spaces around the key and a second '=' in the value.
C2_Witness ==
    /\ ParsedLine /\ ~HasQuote(data) /\ ~Has(data, "#")
    /\ KeyPart(data) # <<>>
    /\ Len(KeyPart(data)) < Len(Before(data, "="))
    /\ Has(ValPart(data), "=")
    /\ entries = << <<KeyPart(data), ValPart(data)>> >>

---------------------------------------------------------------------------
(* C3 *)

\* C3: parse never emits an entry whose key is the empty string.
C3_NoEmptyKey == \A k \in 1..Len(entries) : entries[k][1] # <<>>

---------------------------------------------------------------------------
(* C4 *)

\* A plain key, and a quoted value followed by text that holds a '#'.
QuotedThenComment ==
    /\ ParsedLine /\ PlainKey(data)
    /\ Quoted(ValPart(data))
    /\ Has(Rest(ValPart(data)), "#")

\* A plain key, and a value with no quote character followed by a comment.
UnquotedThenComment ==
    /\ ParsedLine /\ PlainKey(data)
    /\ ~HasQuote(ValPart(data))
    /\ Has(ValPart(data), "#")

\* C4 as stated: for a quoted value followed by a trailing comment the text
\* after the closing quote, '#' included, stays in the emitted value; for an
\* unquoted value it is stripped.
C4_Original ==
    /\ QuotedThenComment =>
          /\ Len(entries) = 1
          /\ IsSuffix(Rest(ValPart(data)), entries[1][2])
    /\ UnquotedThenComment =>
          /\ Len(entries) = 1
          /\ entries[1][2] = Strip(Before(ValPart(data), "#"))

\* C4 amended: the split at '#' is applied only to values without a quote
\* character, yet the text after the closing quote of a quoted value, '#'
\* included, is not part of the emitted value either: the emitted value is
\* the text between the quotes.  For an unquoted value the comment is
\* stripped.
C4_TrailingTextDropped ==
    /\ QuotedThenComment =>
          /\ Len(entries) = 1
          /\ entries[1][2] = Between(ValPart(data))
          /\ Len(entries[1][2]) = Closing(ValPart(data)) - 2
    /\ UnquotedThenComment =>
          /\ Len(entries) = 1
          /\ entries[1][2] = Strip(Before(ValPart(data), "#"))

\* KEY="a"# : a non-empty quoted value followed by a comment was emitted.
C4_Witness ==
    /\ QuotedThenComment
    /\ Between(ValPart(data)) # <<>>
    /\ Len(entries) = 1
    /\ ~Has(entries[1][2], "#")

---------------------------------------------------------------------------
(* C5 *)

\* C5: for a line K = v # c with a plain non-empty K and a v with no quote
\* character and no '#', the entry (trim(K), trim(v)) is emitted whatever
\* the comment c contains.
C5_AnyCommentRemoved ==
    (/\ ParsedLine /\ PlainKey(data) /\ ~Has(KeyPart(data), "#")
     /\ Has(ValPart(data), "#")
     /\ ~HasQuote(Before(ValPart(data), "#")))
       => entries = << <<KeyPart(data), Strip(Before(ValPart(data), "#"))>> >>

---------------------------------------------------------------------------
(* C6, C7: load_env_from *)

\* Every line of every readable source, in the order of the paths given.
RECURSIVE SourceLines(_)
SourceLines(ps) ==
    IF ps = <<>> THEN <<>>
    ELSE (IF Head(ps) = None THEN <<>> ELSE str_lines(Head(ps)[1]))
            \o SourceLines(Tail(ps))

\* The entries of a sequence of lines, line by line.
RECURSIVE EntriesOf(_)
EntriesOf(ls) ==
    IF ls = <<>> THEN <<>>
    ELSE parse_line(Head(ls)) \o EntriesOf(Tail(ls))

Keys(es) == {es[k][1] : k \in 1..Len(es)}

\* The value of the last entry of es with key k.
LastValue(es, k) == es[Max({n \in 1..Len(es) : es[n][1] = k})][2]

\* A sink that keeps one value per key, as std::env::set_var does.
SinkSet(sink, k, v) == {p \in sink : p[1] # k} \cup {<<k, v>>}

RECURSIVE ApplyAll(_, _)
ApplyAll(sink, es) ==
    IF es = <<>> THEN sink
    ELSE ApplyAll(SinkSet(sink, Head(es)[1], Head(es)[2]), Tail(es))

\* C6: the returned entries are those of the lines of the readable sources,
\* in the order of the paths and of the lines, with nothing dropped or
\* merged; so a sink applying them in order holds, for every key, the value
\* of the last source line that defines it.
C6_ApplicationOrder ==
    pc = "done" =>
       /\ entries = EntriesOf(SourceLines(paths))
       /\ \A k \in Keys(EntriesOf(SourceLines(paths))) :
             <<k, LastValue(EntriesOf(SourceLines(paths)), k)>>
                \in ApplyAll({}, entries)

\* K=1 read first, an unreadable path, then K=2: the sink ends with K=2.
C6_Witness ==
    /\ pc = "done"
    /\ paths = << Some(<<"K", "=", "1">>), None, Some(<<"K", "=", "2", "\n">>) >>
    /\ entries = << <<KeyK, <<"1">>>>, <<KeyK, <<"2">>>> >>
    /\ ApplyAll({}, entries) = {<<KeyK, <<"2">>>>}

\* C7: after load_env_from returns, the process environment maps every
\* returned key to the value of the last returned pair with that key.
C7_EnvironmentSet ==
    pc = "done" =>
       \A k \in Keys(entries) : <<k, LastValue(entries, k)>> \in env

---------------------------------------------------------------------------
(* C8, C9, C10: parse_str *)

\* parse passes parse_str only trimmed text.
TrimmedInput == Strip(input) = input

Clean(v) == ~HasQuote(v) /\ ~Has(v, "#")

NoEdgeWhitespace(v) == Strip(v) = v

\* C8 as stated: a returned value with no quote character and no '#' is
\* returned unchanged when normalized again.
C8_Original ==
    (pc = "done" /\ TrimmedInput /\ result # None /\ Clean(result[1]))
       => parse_str(result[1]) = result

\* C8 amended: normalizing such a value again returns it trimmed.  It is
\* returned unchanged exactly when it has no surrounding whitespace, which
\* is the case for every input without a quote character; the text between
\* quotes keeps its surrounding whitespace.
C8_IdempotentOnTrimmed ==
    (pc = "done" /\ result # None /\ Clean(result[1])) =>
       /\ parse_str(result[1]) = Some(Strip(result[1]))
       /\ ~HasQuote(input) =>
             /\ NoEdgeWhitespace(result[1])
             /\ parse_str(result[1]) = result

\* An unquoted input with surrounding whitespace and a comment was normalized.
C8_Witness ==
    /\ pc = "done" /\ ~HasQuote(input) /\ Has(input, "#")
    /\ result # None /\ result[1] # <<>>
    /\ input[1] = " "
    /\ parse_str(result[1]) = result

\* Position of the first quote character of s (Len(s) + 1 when none).
FirstQuote(s) == Min({k \in 1..Len(s) : s[k] \in {"'", "\""}} \cup {Len(s) + 1})

\* From its first quote character on, s is a quoted text.
QuotedFromFirstQuote(s) ==
    /\ FirstQuote(s) <= Len(s)
    /\ Quoted(SubSeq(s, FirstQuote(s), Len(s)))

\* C9: with characters before the first quote q and a later q, the result is
\* the text strictly between the two; nothing is returned only when a
\* delimiter is missing.
C9_LeadingSkipped ==
    (pc = "done" /\ TrimmedInput /\ FirstQuote(input) > 1
        /\ QuotedFromFirstQuote(input))
       => result = Some(Between(SubSeq(input, FirstQuote(input), Len(input))))

\* C10: parse_str never panics (no usize underflow at i - 1, no
\* unreachable!(), no out-of-range slice), end is only set at an index after
\* the one that set start, a range past the end of the input gives None, and
\* every call that has not returned can take its next step.
C10_NeverFaults ==
    /\ fault = "none" /\ pc # "panic"
    /\ end # None => (start # None /\ start[1] >= 1 /\ end[1] >= start[1] - 1)
    /\ (start # None \/ end # None) => flavor # "Unknown"
    /\ pc = "done" =>
          \/ result = None
          \/ Len(result) = 1 /\ Len(result[1]) <= Len(input)
    /\ (pc = "done" /\ start # None /\ end # None
           /\ start[1] + end[1] > Len(input)) => result = None
    /\ pc # "done" => ENABLED NextStr

\* Both delimiters found after leading characters, and the range
\* start..start+end runs past the end: None is returned.
C10_Witness ==
    /\ pc = "done" /\ fault = "none"
    /\ start # None /\ end # None
    /\ start[1] + end[1] > Len(input)
    /\ result = None

=============================================================================
